---- MODULE Spec2Model ----
(***************************************************************************)
(* The exemption-eligibility scorer of Scripts/individual_scores.py (and   *)
(* its copy in Scripts/visualizations.py): one data-frame row is scored by *)
(* eight rules evaluated in a fixed order, then mapped to a tier.          *)
(*                                                                         *)
(* Scores are floats in the source; every value the scorer can produce is  *)
(* a multiple of 0.25, so the model counts hundredths of a point           *)
(* (Pts(8) = 800 is the source's 8, 625 its 6.25).                         *)
(***************************************************************************)
EXTENDS Integers, Sequences, FiniteSets, TLC

VARIABLES row, power_numeric, disclosure_score, pc, score, reasons, tier

vars == <<row, power_numeric, disclosure_score, pc, score, reasons, tier>>

(***************************************************************************)
(* Python values held by a cell of the data frame.                         *)
(***************************************************************************)
None == [t |-> "None", s |-> "", n |-> 0]
NaN == [t |-> "nan", s |-> "", n |-> 0]
Str(x) == [t |-> "str", s |-> x, n |-> 0]
Num(k) == [t |-> "num", s |-> "", n |-> k]

\* x in ['-', '', None]
InSentinelList(v) == v = Str("-") \/ v = Str("") \/ v = None

\* pd.notna(x): false for None and NaN, true for every other scalar
notna(v) == v.t \notin {"None", "nan"}

\* isinstance(x, (int, float))
IsIntOrFloat(v) == v.t \in {"num", "nan"}

Pts(n) == n * 100

(***************************************************************************)
(* Text conversions.                                                       *)
(***************************************************************************)
Digits == <<"0", "1", "2", "3", "4", "5", "6", "7", "8", "9">>

DigitChars == {Digits[i] : i \in 1..10}

DigitVal(c) == (CHOOSE i \in 1..10 : Digits[i] = c) - 1

RECURSIVE IntToStr(_)
\* str(k) / f"{k:.0f}" of a non-negative whole number
IntToStr(k) == IF k < 10 THEN Digits[k + 1]
               ELSE IntToStr(k \div 10) \o Digits[(k % 10) + 1]

RECURSIVE StrRemove(_, _)
\* s.replace(c, '')
StrRemove(s, c) ==
    IF Len(s) = 0 THEN ""
    ELSE LET h == SubSeq(s, 1, 1)
             rest == StrRemove(SubSeq(s, 2, Len(s)), c)
         IN IF h = c THEN rest ELSE h \o rest

RECURSIVE ParseDigits(_, _)
ParseDigits(s, acc) ==
    IF Len(s) = 0 THEN acc
    ELSE ParseDigits(SubSeq(s, 2, Len(s)), acc * 10 + DigitVal(SubSeq(s, 1, 1)))

\* pd.to_numeric(s, errors='coerce') on the strings of the model: a non-empty
\* run of decimal digits is its number, anything else is NaN
to_numeric(s) ==
    IF Len(s) > 0 /\ \A i \in 1..Len(s) : SubSeq(s, i, i) \in DigitChars
    THEN Num(ParseDigits(s, 0))
    ELSE NaN

\* Series.astype(str) of one cell
astype_str(v) ==
    CASE v.t = "None" -> "None"
      [] v.t = "nan" -> "nan"
      [] v.t = "num" -> IntToStr(v.n)
      [] OTHER -> v.s

\* PowerNumeric without the removal of spaces
PowerNumeric_KeepSpaces(r) ==
    to_numeric(StrRemove(astype_str(r.power), ","))

\* df['power_numeric'] for one row
PowerNumeric(r) ==
    to_numeric(StrRemove(StrRemove(astype_str(r.power), ","), " "))

\* round-half-even of a / b, as the format spec .0f rounds a float
RoundHalfEven(a, b) ==
    LET q == a \div b
        rem == a % b
    IN IF 2 * rem > b \/ (2 * rem = b /\ q % 2 = 1) THEN q + 1 ELSE q

\* calculate_disclosure_score without the population field
calculate_disclosure_score_NoPop(r) ==
    LET n == (IF ~InSentinelList(r.annual_water) THEN 1 ELSE 0)
           + (IF ~InSentinelList(r.daily_water) THEN 1 ELSE 0)
           + (IF ~InSentinelList(r.power) THEN 1 ELSE 0)
        max_score == 4
    IN (n * 100) \div max_score

calculate_disclosure_score(r) ==
    LET n == (IF ~InSentinelList(r.annual_water) THEN 1 ELSE 0)
           + (IF ~InSentinelList(r.daily_water) THEN 1 ELSE 0)
           + (IF ~InSentinelList(r.power) THEN 1 ELSE 0)
           + (IF ~InSentinelList(r.pop) THEN 1 ELSE 0)
        max_score == 4
    IN (n * 100) \div max_score

(***************************************************************************)
(* The eight rules. Each gives the points added to score (hundredths) and  *)
(* the reasons appended (an empty or one-element sequence).                *)
(***************************************************************************)
renewable_pct == 0

\* RenewableRule without the low-renewable reason
RenewableRule_NoReason ==
    [pts |-> (renewable_pct * Pts(15)) \div 100, reason |-> <<>>]

\* RenewableRule granting the full renewable credit
RenewableRule_FullCredit ==
    [pts |-> Pts(15), reason |-> <<>>]

RenewableRule ==
    [pts |-> (renewable_pct * Pts(15)) \div 100,
     reason |-> IF renewable_pct < 40
                THEN <<"Low renewable energy (" \o IntToStr(renewable_pct) \o "%)">>
                ELSE <<>>]

\* WaterRule without the test that annual water is disclosed
WaterRule_NoDataTest(r) ==
    LET water_stress == r.water_stress
    IN IF water_stress \in {Str("Low (<10%)"), Str("Low - Medium (10-20%)")}
       THEN [pts |-> Pts(8), reason |-> <<>>]
       ELSE IF water_stress \in {Str("Medium - High (20-40%)")}
       THEN [pts |-> Pts(5), reason |-> <<"Medium-high water stress with data">>]
       ELSE IF water_stress \in {Str("High (40-80%)"), Str("Extremely High (>80%)")}
       THEN [pts |-> 0,
             reason |-> <<"High water stress (" \o water_stress.s \o ")">>]
       ELSE [pts |-> Pts(3), reason |-> <<>>]

WaterRule(r) ==
    LET water_stress == r.water_stress
        water_data == r.annual_water
    IN IF water_stress \in {Str("Low (<10%)"), Str("Low - Medium (10-20%)")}
       THEN [pts |-> Pts(8), reason |-> <<>>]
       ELSE IF water_stress \in {Str("Medium - High (20-40%)")}
               /\ ~InSentinelList(water_data)
       THEN [pts |-> Pts(5), reason |-> <<"Medium-high water stress with data">>]
       ELSE IF water_stress \in {Str("High (40-80%)"), Str("Extremely High (>80%)")}
       THEN [pts |-> 0,
             reason |-> <<"High water stress (" \o water_stress.s \o ")">>]
       ELSE [pts |-> Pts(3), reason |-> <<>>]

emissions_disclosed(r) ==
    (IF ~InSentinelList(r.nox) THEN 1 ELSE 0)
    + (IF ~InSentinelList(r.pm25) THEN 1 ELSE 0)
    + (IF ~InSentinelList(r.co2e) THEN 1 ELSE 0)

\* EmissionsRule with the reason appended only when nothing is disclosed
EmissionsRule_ReasonBelowOne(r) ==
    LET c == emissions_disclosed(r)
    IN [pts |-> (c * Pts(15)) \div 3,
        reason |-> IF c < 1
                   THEN <<"Missing emissions data (" \o IntToStr(3 - c) \o " fields)">>
                   ELSE <<>>]

EmissionsRule(r) ==
    LET c == emissions_disclosed(r)
    IN [pts |-> (c * Pts(15)) \div 3,
        reason |-> IF c < 2
                   THEN <<"Missing emissions data (" \o IntToStr(3 - c) \o " fields)">>
                   ELSE <<>>]

\* PopulationRule with both thresholds inclusive
PopulationRule_Inclusive(r) ==
    LET pop == r.pop
    IN IF notna(pop) /\ pop # Str("-")
       THEN LET pop_num == IF IsIntOrFloat(pop) THEN pop.n ELSE 0
            IN IF pop_num <= 1000
               THEN [pts |-> Pts(10), reason |-> <<>>]
               ELSE IF pop_num <= 5000
               THEN [pts |-> Pts(5),
                     reason |-> <<"Population exposure: " \o IntToStr(pop_num)
                                  \o " residents">>]
               ELSE [pts |-> 0,
                     reason |-> <<"High population exposure: " \o IntToStr(pop_num)
                                  \o " residents">>]
       ELSE [pts |-> Pts(3), reason |-> <<>>]

PopulationRule(r) ==
    LET pop == r.pop
    IN IF notna(pop) /\ pop # Str("-")
       THEN LET pop_num == IF IsIntOrFloat(pop) THEN pop.n ELSE 0
            IN IF pop_num < 1000
               THEN [pts |-> Pts(10), reason |-> <<>>]
               ELSE IF pop_num < 5000
               THEN [pts |-> Pts(5),
                     reason |-> <<"Population exposure: " \o IntToStr(pop_num)
                                  \o " residents">>]
               ELSE [pts |-> 0,
                     reason |-> <<"High population exposure: " \o IntToStr(pop_num)
                                  \o " residents">>]
       ELSE [pts |-> Pts(3), reason |-> <<>>]

\* EJRule with `or` for `and`
EJRule_Either(r) ==
    IF r.ej_state = Str("no") \/ r.ej_us = Str("no")
    THEN [pts |-> Pts(10), reason |-> <<>>]
    ELSE [pts |-> 0, reason |-> <<"Environmental justice concerns flagged">>]

EJRule(r) ==
    LET ej_state == r.ej_state
        ej_us == r.ej_us
    IN IF ej_state = Str("no") /\ ej_us = Str("no")
       THEN [pts |-> Pts(10), reason |-> <<>>]
       ELSE [pts |-> 0, reason |-> <<"Environmental justice concerns flagged">>]

\* EngagementRule with a credit of 10
EngagementRule_Ten == [pts |-> Pts(10), reason |-> <<>>]

EngagementRule == [pts |-> Pts(5), reason |-> <<>>]

\* PowerRule with a penalty for high demand
PowerRule_Penalty(power) ==
    IF notna(power)
    THEN IF power.n < 50000 THEN [pts |-> Pts(5), reason |-> <<>>]
         ELSE IF power.n < 100000 THEN [pts |-> Pts(3), reason |-> <<>>]
         ELSE [pts |-> 0 - Pts(5),
               reason |-> <<"High power demand ("
                            \o IntToStr(RoundHalfEven(power.n, 1000)) \o " MW)">>]
    ELSE [pts |-> Pts(2), reason |-> <<>>]

PowerRule(power) ==
    IF notna(power)
    THEN IF power.n < 50000 THEN [pts |-> Pts(5), reason |-> <<>>]
         ELSE IF power.n < 100000 THEN [pts |-> Pts(3), reason |-> <<>>]
         ELSE [pts |-> 0,
               reason |-> <<"High power demand ("
                            \o IntToStr(RoundHalfEven(power.n, 1000)) \o " MW)">>]
    ELSE [pts |-> Pts(2), reason |-> <<>>]

\* DisclosureRule with the low-disclosure threshold inclusive
DisclosureRule_Inclusive(disclosure) ==
    [pts |-> (disclosure * Pts(25)) \div 100,
     reason |-> IF disclosure <= 50
                THEN <<"Low disclosure score (" \o IntToStr(disclosure) \o "%)">>
                ELSE <<>>]

DisclosureRule(disclosure) ==
    [pts |-> (disclosure * Pts(25)) \div 100,
     reason |-> IF disclosure < 50
                THEN <<"Low disclosure score (" \o IntToStr(disclosure) \o "%)">>
                ELSE <<>>]

\* TierOf with the partial threshold exclusive
TierOf_StrictPartial(s) ==
    IF s >= Pts(80) THEN "Full Exemption (100%)"
    ELSE IF s > Pts(60) THEN "Partial Exemption (50%)"
    ELSE "No Exemption (0%)"

TierOf(s) ==
    IF s >= Pts(80) THEN "Full Exemption (100%)"
    ELSE IF s >= Pts(60) THEN "Partial Exemption (50%)"
    ELSE "No Exemption (0%)"

\* The scorer as a function of the row: score, tier and reasons returned
calculate_exemption_eligibility(r) ==
    LET rules == <<RenewableRule, WaterRule(r), EmissionsRule(r), PopulationRule(r),
                   EJRule(r), EngagementRule, PowerRule(PowerNumeric(r)),
                   DisclosureRule(calculate_disclosure_score(r))>>
        total == rules[1].pts + rules[2].pts + rules[3].pts + rules[4].pts
                 + rules[5].pts + rules[6].pts + rules[7].pts + rules[8].pts
    IN [score |-> total,
        tier |-> TierOf(total),
        reasons |-> rules[1].reason \o rules[2].reason \o rules[3].reason
                    \o rules[4].reason \o rules[5].reason \o rules[6].reason
                    \o rules[7].reason \o rules[8].reason]

(***************************************************************************)
(* The copy of the scorer in Scripts/visualizations.py, with the derived   *)
(* columns that file computes for itself.                                  *)
(***************************************************************************)
viz_power_numeric(r) ==
    to_numeric(StrRemove(StrRemove(astype_str(r.power), ","), " "))

viz_calculate_disclosure_score(r) ==
    LET s1 == IF ~InSentinelList(r.annual_water) THEN 1 ELSE 0
        s2 == s1 + (IF ~InSentinelList(r.daily_water) THEN 1 ELSE 0)
        s3 == s2 + (IF ~InSentinelList(r.power) THEN 1 ELSE 0)
        s4 == s3 + (IF ~InSentinelList(r.pop) THEN 1 ELSE 0)
    IN (s4 * 100) \div 4

viz_calculate_exemption_eligibility(r) ==
    LET \* renewable
        s1 == (0 * Pts(15)) \div 100
        r1 == <<"Low renewable energy (0%)">>
        \* water
        ws == r.water_stress
        low == ws = Str("Low (<10%)") \/ ws = Str("Low - Medium (10-20%)")
        med == ws = Str("Medium - High (20-40%)") /\ ~InSentinelList(r.annual_water)
        high == ws = Str("High (40-80%)") \/ ws = Str("Extremely High (>80%)")
        s2 == s1 + (IF low THEN Pts(8) ELSE IF med THEN Pts(5)
                    ELSE IF high THEN 0 ELSE Pts(3))
        r2 == IF low THEN r1
              ELSE IF med THEN Append(r1, "Medium-high water stress with data")
              ELSE IF high THEN Append(r1, "High water stress (" \o ws.s \o ")")
              ELSE r1
        \* emissions
        c == (IF ~InSentinelList(r.nox) THEN 1 ELSE 0)
             + (IF ~InSentinelList(r.pm25) THEN 1 ELSE 0)
             + (IF ~InSentinelList(r.co2e) THEN 1 ELSE 0)
        s3 == s2 + (c * Pts(15)) \div 3
        r3 == IF c < 2
              THEN Append(r2, "Missing emissions data (" \o IntToStr(3 - c) \o " fields)")
              ELSE r2
        \* population
        pop == r.pop
        counted == notna(pop) /\ pop # Str("-")
        pop_num == IF IsIntOrFloat(pop) THEN pop.n ELSE 0
        s4 == s3 + (IF ~counted THEN Pts(3)
                    ELSE IF pop_num < 1000 THEN Pts(10)
                    ELSE IF pop_num < 5000 THEN Pts(5) ELSE 0)
        r4 == IF ~counted \/ pop_num < 1000 THEN r3
              ELSE IF pop_num < 5000
              THEN Append(r3, "Population exposure: " \o IntToStr(pop_num) \o " residents")
              ELSE Append(r3, "High population exposure: " \o IntToStr(pop_num)
                                  \o " residents")
        \* environmental justice
        ej == r.ej_state = Str("no") /\ r.ej_us = Str("no")
        s5 == s4 + (IF ej THEN Pts(10) ELSE 0)
        r5 == IF ej THEN r4 ELSE Append(r4, "Environmental justice concerns flagged")
        \* engagement
        s6 == s5 + Pts(5)
        \* power
        power == viz_power_numeric(r)
        s7 == s6 + (IF ~notna(power) THEN Pts(2)
                    ELSE IF power.n < 50000 THEN Pts(5)
                    ELSE IF power.n < 100000 THEN Pts(3) ELSE 0)
        r7 == IF notna(power) /\ power.n >= 100000
              THEN Append(r5, "High power demand ("
                                  \o IntToStr(RoundHalfEven(power.n, 1000)) \o " MW)")
              ELSE r5
        \* disclosure
        disclosure == viz_calculate_disclosure_score(r)
        s8 == s7 + (disclosure * Pts(25)) \div 100
        r8 == IF disclosure < 50
              THEN Append(r7, "Low disclosure score (" \o IntToStr(disclosure) \o "%)")
              ELSE r7
    IN [score |-> s8,
        tier |-> IF s8 >= Pts(80) THEN "Full Exemption (100%)"
                 ELSE IF s8 >= Pts(60) THEN "Partial Exemption (50%)"
                 ELSE "No Exemption (0%)",
        reasons |-> r8]

(***************************************************************************)
(* print_detailed_breakdown of Scripts/individual_scores.py: the eight     *)
(* per-category scores it recomputes for a scored row, and their total.    *)
(***************************************************************************)
score_breakdown(r, power, disclosure) ==
    LET ws == r.water_stress
        pop == r.pop
        pop_num == IF IsIntOrFloat(pop) THEN pop.n ELSE 0
        c == (IF ~InSentinelList(r.nox) THEN 1 ELSE 0)
             + (IF ~InSentinelList(r.pm25) THEN 1 ELSE 0)
             + (IF ~InSentinelList(r.co2e) THEN 1 ELSE 0)
    IN [renewable |-> (0 * Pts(15)) \div 100,
        water |-> IF ws \in {Str("Low (<10%)"), Str("Low - Medium (10-20%)")}
                  THEN Pts(8)
                  ELSE IF ws \in {Str("Medium - High (20-40%)")}
                          /\ ~InSentinelList(r.annual_water)
                  THEN Pts(5)
                  ELSE IF ws \in {Str("High (40-80%)"), Str("Extremely High (>80%)")}
                  THEN 0
                  ELSE Pts(3),
        emissions |-> (c * Pts(15)) \div 3,
        population |-> IF notna(pop) /\ pop # Str("-")
                       THEN IF pop_num < 1000 THEN Pts(10)
                            ELSE IF pop_num < 5000 THEN Pts(5) ELSE 0
                       ELSE Pts(3),
        ej |-> IF r.ej_state = Str("no") /\ r.ej_us = Str("no") THEN Pts(10) ELSE 0,
        engagement |-> Pts(5),
        power |-> IF notna(power)
                  THEN IF power.n < 50000 THEN Pts(5)
                       ELSE IF power.n < 100000 THEN Pts(3) ELSE 0
                  ELSE Pts(2),
        disclosure |-> (disclosure * Pts(25)) \div 100]

print_detailed_breakdown(r, power, disclosure) ==
    LET b == score_breakdown(r, power, disclosure)
    IN b.renewable + b.water + b.emissions + b.population + b.ej + b.engagement
       + b.power + b.disclosure

(***************************************************************************)
(* The rows scored. Every row lies within MaxChanged cell changes of one   *)
(* of the profile rows, each cell ranging over FieldValues.                *)
(***************************************************************************)
MaxChanged == 2

WaterStressValues ==
    {Str("Low (<10%)"), Str("Low - Medium (10-20%)"), Str("Medium - High (20-40%)"),
     Str("High (40-80%)"), Str("Extremely High (>80%)"),
     Str("Arid and Low Water Use"), Str("Unknown"), None}

Sentinels == {Str(""), Str("-"), None}

FieldValues ==
    [water_stress |-> WaterStressValues,
     annual_water |-> Sentinels \cup {Str("1,200,000")},
     daily_water |-> Sentinels \cup {Str("3,300")},
     nox |-> Sentinels \cup {Num(12)},
     pm25 |-> Sentinels \cup {Num(3)},
     co2e |-> Sentinels \cup {Num(45000)},
     pop |-> Sentinels \cup {Str("n/a"), Num(500), Num(999), Num(1000),
                             Num(4999), Num(5000), Num(8000)},
     ej_state |-> {Str("no"), Str("yes"), Str("No"), Str("-"), None},
     ej_us |-> {Str("no"), Str("yes"), Str("No"), Str("-"), None},
     power |-> Sentinels \cup {Str("n/a"), Str("49,999"), Str("100 000"),
                               Num(10000), Num(49999), Num(50000), Num(99999),
                               Num(100000), Num(150000)}]

Fields == DOMAIN FieldValues

BestRow ==
    [water_stress |-> Str("Low (<10%)"), annual_water |-> Str("1,200,000"),
     daily_water |-> Str("3,300"), nox |-> Num(12), pm25 |-> Num(3),
     co2e |-> Num(45000), pop |-> Num(500), ej_state |-> Str("no"),
     ej_us |-> Str("no"), power |-> Num(10000)]

WorstRow ==
    [water_stress |-> Str("Extremely High (>80%)"), annual_water |-> Str("-"),
     daily_water |-> Str("-"), nox |-> Str("-"), pm25 |-> Str("-"),
     co2e |-> Str("-"), pop |-> Num(8000), ej_state |-> Str("yes"),
     ej_us |-> Str("no"), power |-> Num(150000)]

MidRow ==
    [water_stress |-> Str("Medium - High (20-40%)"), annual_water |-> Str("1,200,000"),
     daily_water |-> Str(""), nox |-> Num(12), pm25 |-> Str(""),
     co2e |-> None, pop |-> Num(4999), ej_state |-> Str("no"),
     ej_us |-> Str("yes"), power |-> Str("49,999")]

BlankRow == [f \in Fields |-> None]

Profiles == {BestRow, WorstRow, MidRow, BlankRow}

\* one cell change: a field and the value written to it
Cells == UNION {{<<f, v>> : v \in FieldValues[f]} : f \in Fields}

Changes == [1..MaxChanged -> Cells]

RECURSIVE Change(_, _, _)
\* r after the first k changes of chg
Change(r, chg, k) ==
    IF k = 0 THEN r
    ELSE [Change(r, chg, k - 1) EXCEPT ![chg[k][1]] = chg[k][2]]

(***************************************************************************)
(* The scorer, one action per rule.                                        *)
(***************************************************************************)
Init ==
    /\ \E base \in Profiles, chg \in Changes : row = Change(base, chg, MaxChanged)
    /\ power_numeric = PowerNumeric(row)
    /\ disclosure_score = calculate_disclosure_score(row)
    /\ pc = "renewable"
    /\ score = 0
    /\ reasons = <<>>
    /\ tier = ""

\* Apply putting the new reason in front of the list
Apply_Prepend(rule, next) ==
    /\ score' = score + rule.pts
    /\ reasons' = rule.reason \o reasons
    /\ pc' = next
    /\ UNCHANGED <<row, power_numeric, disclosure_score, tier>>

Apply(rule, next) ==
    /\ score' = score + rule.pts
    /\ reasons' = reasons \o rule.reason
    /\ pc' = next
    /\ UNCHANGED <<row, power_numeric, disclosure_score, tier>>

Renewable == pc = "renewable" /\ Apply(RenewableRule, "water")

Water == pc = "water" /\ Apply(WaterRule(row), "emissions")

Emissions == pc = "emissions" /\ Apply(EmissionsRule(row), "population")

Population == pc = "population" /\ Apply(PopulationRule(row), "ej")

EnvJustice == pc = "ej" /\ Apply(EJRule(row), "engagement")

Engagement == pc = "engagement" /\ Apply(EngagementRule, "power")

Power == pc = "power" /\ Apply(PowerRule(power_numeric), "disclosure")

Disclosure == pc = "disclosure" /\ Apply(DisclosureRule(disclosure_score), "tier")

Tier ==
    /\ pc = "tier"
    /\ tier' = TierOf(score)
    /\ pc' = "done"
    /\ UNCHANGED <<row, power_numeric, disclosure_score, score, reasons>>

Next ==
    \/ Renewable
    \/ Water
    \/ Emissions
    \/ Population
    \/ EnvJustice
    \/ Engagement
    \/ Power
    \/ Disclosure
    \/ Tier

Spec == Init /\ [][Next]_vars

(***************************************************************************)
(* Properties.                                                             *)
(***************************************************************************)
Full == "Full Exemption (100%)"
Partial == "Partial Exemption (50%)"
NoExemption == "No Exemption (0%)"

Last(q) == q[Len(q)]

HasPrefix(str, p) == Len(str) >= Len(p) /\ SubSeq(str, 1, Len(p)) = p

\* the step leaves the reasons as they were
NoReason == reasons' = reasons

\* the step appends exactly one reason
OneReason == Len(reasons') = Len(reasons) + 1 /\ SubSeq(reasons', 1, Len(reasons)) = reasons

\* the step adds n points to the score
Adds(n) == score' = score + Pts(n)

Result == [score |-> score, tier |-> tier, reasons |-> reasons]

\* C1: the returned tier is a fixed threshold function of the returned score:
\* Full iff score >= 80, Partial iff 60 <= score < 80, No Exemption iff
\* score < 60, and exactly one of the three labels is returned.
C1_TierThresholds ==
    pc = "done" =>
        /\ tier \in {Full, Partial, NoExemption}
        /\ tier = Full <=> score >= Pts(80)
        /\ tier = Partial <=> (score >= Pts(60) /\ score < Pts(80))
        /\ tier = NoExemption <=> score < Pts(60)

C1_Witness == pc = "done" /\ score = Pts(60) /\ tier = Partial

\* C2: for every row 0 <= score <= 95 throughout, and no rule's contribution
\* is negative (no step lowers the running score).
C2_ScoreBounds ==
    /\ [](score >= 0 /\ score <= Pts(95))
    /\ [][score' >= score]_vars

C2_Witness == pc = "done" /\ score = 1750 /\ row.power = Num(150000)

\* C3 (as amended): the maximum score attainable is 78: no row scores more
\* than 78 (and C3_Witness is a row that scores exactly 78).
C3_MaxScore78 == pc = "done" => score <= Pts(78)

C3_Witness == pc = "done" /\ score = Pts(78) /\ tier = Partial

\* C3 (as stated): the maximum score attainable is 95: no row scores more,
\* and a row that no row outscores scores exactly 95.
C3_MaxScore95 ==
    pc = "done" =>
        /\ score <= Pts(95)
        /\ (\A base \in Profiles, chg \in Changes :
                calculate_exemption_eligibility(Change(base, chg, MaxChanged)).score
                    <= score)
               => score = Pts(95)

DisclosureTested == {"annual_water", "daily_water", "nox", "pm25", "co2e", "pop", "power"}

\* C4: sentinel equivalence: in any field tested for disclosure, replacing one
\* not-disclosed marker ("", "-", None) by another leaves the disclosure score
\* and the whole result (score, tier, reasons) unchanged.
C4_SentinelEquivalence ==
    pc = "done" =>
        \A f \in DisclosureTested, m \in Sentinels :
            row[f] \in Sentinels =>
                LET other == [row EXCEPT ![f] = m]
                IN /\ calculate_disclosure_score(other) = disclosure_score
                   /\ calculate_exemption_eligibility(other) = Result

\* C5: a population that is present but not a number is scored like a
\* not-disclosed population: 3 points and no population reason.
C5_NonNumericPopulation ==
    [][(pc = "population" /\ row.pop.t = "str" /\ row.pop \notin Sentinels)
           => (Adds(3) /\ NoReason)]_vars

\* C6: population rule: a number n gives 10 and no reason if n < 1000, 5 and a
\* 'Population exposure' reason if 1000 <= n < 5000, 0 and a 'High population
\* exposure' reason if n >= 5000; "-" gives 3 and no reason.
C6_PopulationRule ==
    [][pc = "population" =>
        LET pop == row.pop
        IN /\ (pop.t = "num" /\ pop.n < 1000) => (Adds(10) /\ NoReason)
           /\ (pop.t = "num" /\ pop.n >= 1000 /\ pop.n < 5000) =>
                  /\ Adds(5)
                  /\ OneReason
                  /\ HasPrefix(Last(reasons'), "Population exposure")
           /\ (pop.t = "num" /\ pop.n >= 5000) =>
                  /\ Adds(0)
                  /\ OneReason
                  /\ HasPrefix(Last(reasons'), "High population exposure")
           /\ pop = Str("-") => (Adds(3) /\ NoReason)]_vars

C6_Witness ==
    /\ pc = "ej"
    /\ row.pop = Num(5000)
    /\ Last(reasons) = "High population exposure: 5000 residents"

\* C7: water rule: 8 and no reason for the two low stress levels; 5 and the
\* medium-high reason for medium-high stress with annual water disclosed; 0 and
\* a reason naming the level for the two high levels; 3 and no reason otherwise
\* (arid, missing, medium-high without annual water).
C7_WaterRule ==
    [][pc = "water" =>
        LET ws == row.water_stress
            disclosed == row.annual_water \notin Sentinels
        IN /\ ws \in {Str("Low (<10%)"), Str("Low - Medium (10-20%)")} =>
                  (Adds(8) /\ NoReason)
           /\ (ws = Str("Medium - High (20-40%)") /\ disclosed) =>
                  /\ Adds(5)
                  /\ OneReason
                  /\ Last(reasons') = "Medium-high water stress with data"
           /\ ws \in {Str("High (40-80%)"), Str("Extremely High (>80%)")} =>
                  /\ Adds(0)
                  /\ OneReason
                  /\ Last(reasons') = "High water stress (" \o ws.s \o ")"
           /\ (\/ ws \in {Str("Arid and Low Water Use"), Str("Unknown"), None}
               \/ (ws = Str("Medium - High (20-40%)") /\ ~disclosed)) =>
                  (Adds(3) /\ NoReason)]_vars

C7_Witness ==
    /\ pc = "emissions"
    /\ row.water_stress = Str("Medium - High (20-40%)")
    /\ row.annual_water \in Sentinels
    /\ score = Pts(3)
    /\ Len(reasons) = 1

\* the number of emissions fields that hold no not-disclosed marker
EmissionsCount == Cardinality({f \in {"nox", "pm25", "co2e"} : row[f] \notin Sentinels})

\* C8: emissions rule: with c fields disclosed the contribution is (c/3)*15,
\* and a 'Missing emissions data' reason stating 3 - c fields is appended
\* if and only if c < 2.
C8_EmissionsRule ==
    [][pc = "emissions" =>
        LET c == EmissionsCount
        IN /\ Adds(5 * c)
           /\ c < 2 =>
                  /\ OneReason
                  /\ Last(reasons') = "Missing emissions data (" \o Digits[3 - c + 1]
                                          \o " fields)"
           /\ c >= 2 => NoReason]_vars

C8_Witness ==
    /\ pc = "population"
    /\ EmissionsCount = 1
    /\ Last(reasons) = "Missing emissions data (2 fields)"

\* C9: environmental-justice rule: 10 and no reason iff both flags are exactly
\* "no"; otherwise 0 and the one fixed reason, whichever flag differs.
C9_EJRule ==
    [][pc = "ej" =>
        IF row.ej_state.t = "str" /\ row.ej_state.s = "no"
           /\ row.ej_us.t = "str" /\ row.ej_us.s = "no"
        THEN Adds(10) /\ NoReason
        ELSE /\ Adds(0)
             /\ OneReason
             /\ Last(reasons') = "Environmental justice concerns flagged"]_vars

C9_Witness ==
    /\ pc = "engagement"
    /\ row.ej_state = Str("no")
    /\ row.ej_us = Str("No")
    /\ Last(reasons) = "Environmental justice concerns flagged"

\* the power cell as a number once separators and spaces are removed; -1 when
\* it is a not-disclosed marker or no number
ParsedPower ==
    CASE row.power.t = "num" -> row.power.n
      [] row.power = Str("49,999") -> 49999
      [] row.power = Str("100 000") -> 100000
      [] OTHER -> -1

\* C10: power rule: with p the parsed power, 5 if p < 50000, 3 if
\* 50000 <= p < 100000, 0 and a 'High power demand' reason if p >= 100000;
\* 2 if the cell is a marker or unparsable; no reason unless p >= 100000.
C10_PowerRule ==
    [][pc = "power" =>
        LET p == ParsedPower
        IN /\ (p >= 0 /\ p < 50000) => (Adds(5) /\ NoReason)
           /\ (p >= 50000 /\ p < 100000) => (Adds(3) /\ NoReason)
           /\ p >= 100000 =>
                  /\ Adds(0)
                  /\ OneReason
                  /\ HasPrefix(Last(reasons'), "High power demand")
           /\ p = -1 => (Adds(2) /\ NoReason)]_vars

C10_Witness ==
    /\ pc = "disclosure"
    /\ row.power = Str("100 000")
    /\ Last(reasons) = "High power demand (100 MW)"

\* the number of the four disclosure fields that hold no not-disclosed marker
DisclosedCount ==
    Cardinality({f \in {"annual_water", "daily_water", "power", "pop"} :
                    row[f] \notin Sentinels})

\* C11: the disclosure score is 25 * d for d disclosed fields among annual
\* water, daily water, power and population; the disclosure step adds
\* (disclosureScore/100)*25 and appends a 'Low disclosure score' reason if and
\* only if disclosureScore < 50; with all four disclosed it adds exactly 25
\* and appends nothing.
C11_DisclosureRule ==
    /\ [](disclosure_score = 25 * DisclosedCount)
    /\ [][pc = "disclosure" =>
            LET d == DisclosedCount
            IN /\ score' = score + 625 * d
               /\ d < 2 =>
                      /\ OneReason
                      /\ Last(reasons') = "Low disclosure score ("
                                              \o (IF d = 0 THEN "0" ELSE "25") \o "%)"
               /\ d >= 2 => NoReason
               /\ d = 4 => (Adds(25) /\ NoReason)]_vars

C11_Witness ==
    /\ pc = "tier"
    /\ DisclosedCount = 1
    /\ disclosure_score = 25
    /\ Last(reasons) = "Low disclosure score (25%)"

\* the row of the second worked example: extreme water stress, no emissions
\* field disclosed, population 8000, state EJ flag "yes", power 150000 kW
IsExample2 ==
    /\ row.water_stress = Str("Extremely High (>80%)")
    /\ row.nox \in Sentinels /\ row.pm25 \in Sentinels /\ row.co2e \in Sentinels
    /\ row.pop = Num(8000)
    /\ row.ej_state = Str("yes")
    /\ row.power = Num(150000)

\* C12 (as amended): for the row of the second example the score is below 60,
\* the tier is No Exemption, and the reasons are six entries in this order:
\* low renewable energy, water stress, missing emissions, high population
\* exposure, EJ concern, high power demand (no low-disclosure reason, since
\* population and power are disclosed).
C12_Example2 ==
    (pc = "done" /\ IsExample2) =>
        /\ score < Pts(60)
        /\ tier = NoExemption
        /\ reasons = <<"Low renewable energy (0%)",
                       "High water stress (Extremely High (>80%))",
                       "Missing emissions data (3 fields)",
                       "High population exposure: 8000 residents",
                       "Environmental justice concerns flagged",
                       "High power demand (150 MW)">>

C12_Witness == pc = "done" /\ IsExample2 /\ row.ej_us = Str("no") /\ score = 1750

\* C12 (as stated): for the row of the second example the score is below 60,
\* the tier is No Exemption, and the reasons are six entries in this order:
\* water stress, missing emissions, high population exposure, EJ concern,
\* high power demand, low disclosure score.
C12_Example2AsStated ==
    (pc = "done" /\ IsExample2) =>
        /\ score < Pts(60)
        /\ tier = NoExemption
        /\ Len(reasons) = 6
        /\ HasPrefix(reasons[1], "High water stress")
        /\ HasPrefix(reasons[2], "Missing emissions data")
        /\ HasPrefix(reasons[3], "High population exposure")
        /\ HasPrefix(reasons[4], "Environmental justice concerns")
        /\ HasPrefix(reasons[5], "High power demand")
        /\ HasPrefix(reasons[6], "Low disclosure score")

\* the rule (1..8, in evaluation order) a reason belongs to; 0 if none
RuleOf(reason) ==
    CASE HasPrefix(reason, "Low renewable energy") -> 1
      [] HasPrefix(reason, "Medium-high water stress") -> 2
      [] HasPrefix(reason, "High water stress") -> 2
      [] HasPrefix(reason, "Missing emissions data") -> 3
      [] HasPrefix(reason, "Population exposure") -> 4
      [] HasPrefix(reason, "High population exposure") -> 4
      [] HasPrefix(reason, "Environmental justice concerns") -> 5
      [] HasPrefix(reason, "High power demand") -> 7
      [] HasPrefix(reason, "Low disclosure score") -> 8
      [] OTHER -> 0

\* C13: every step extends the reasons list (nothing removed or reordered) and
\* never lowers the running score; the final list starts with the 'Low
\* renewable energy' reason, has at most one reason per rule, in rule order.
C13_ReasonsGrowInOrder ==
    /\ [][/\ Len(reasons') >= Len(reasons)
          /\ SubSeq(reasons', 1, Len(reasons)) = reasons
          /\ score' >= score]_vars
    /\ [](pc = "done" =>
            /\ Len(reasons) >= 1
            /\ HasPrefix(reasons[1], "Low renewable energy")
            /\ \A i \in 1..Len(reasons) : RuleOf(reasons[i]) > 0
            /\ \A i, j \in 1..Len(reasons) :
                   i < j => RuleOf(reasons[i]) < RuleOf(reasons[j]))

C13_Witness ==
    /\ pc = "done"
    /\ Len(reasons) = 6
    /\ RuleOf(reasons[2]) = 2
    /\ RuleOf(reasons[6]) = 8

\* C14: the Full Exemption tier is unreachable: every returned score is
\* strictly below 80 and every tier is Partial Exemption or No Exemption.
C14_FullUnreachable ==
    pc = "done" => (score < Pts(80) /\ tier \in {Partial, NoExemption})

C14_Witness == pc = "done" /\ row = BestRow /\ tier = Partial

\* C15: the duplicated scoring logic agrees: the copy in visualizations.py
\* returns the same (score, tier, reasons) as the scorer of
\* individual_scores.py, and the total print_detailed_breakdown recomputes
\* for the scored row equals the returned score.
C15_CopiesAgree ==
    pc = "done" =>
        /\ viz_calculate_exemption_eligibility(row) = Result
        /\ print_detailed_breakdown(row, power_numeric, disclosure_score) = score

C15_Witness ==
    /\ pc = "done"
    /\ row.pop = Str("")
    /\ row.power = Str("100 000")
    /\ viz_calculate_exemption_eligibility(row).score = score
    /\ Len(reasons) >= 3

\* C16: disclosing more never lowers the score: changing one of the fields
\* tested for disclosure from a not-disclosed marker to a disclosed value,
\* the disclosure score recomputed, gives a total score at least as high.
C16_DisclosureMonotone ==
    pc = "done" =>
        \A f \in DisclosureTested :
            row[f] \in Sentinels =>
                \A v \in FieldValues[f] \ Sentinels :
                    calculate_exemption_eligibility([row EXCEPT ![f] = v]).score >= score

====
